---- MODULE Spec2Model ----
(***************************************************************************)
(* PR reviewer assignment service (internal/service): the four tables of   *)
(* internal/database and the operations of Service, as a state machine.    *)
(*                                                                         *)
(* Spec     : the operations called one after another (each call runs to   *)
(*            completion before the next starts).                          *)
(* SpecFrame: the calls on pull requests of one team, with several pull    *)
(*            requests.                                                    *)
(* SpecTeam : one CreateTeam or BulkDeactivateUsers call with its request  *)
(*            kept, on the tables earlier calls can leave.                 *)
(* SpecConc : MergePullRequest and ReassignReviewer calls running          *)
(*            concurrently, one SQL statement per step, under PostgreSQL's *)
(*            default READ COMMITTED isolation.                            *)
(* SpecSafe : SafeReassignOpenPRs and ReassignReviewer calls running       *)
(*            concurrently, one SQL statement per step.                    *)
(* SpecFail : one transactional call, one SQL statement per step, in which *)
(*            any statement may fail.                                      *)
(* SpecCreate: concurrent CreatePullRequest calls, one statement per step. *)
(* SpecLive : concurrent calls of the five writing operations with weak    *)
(*            fairness of every connection.                                *)
(* SpecRace : a ReassignReviewer call with users changed between its       *)
(*            statements.                                                  *)
(* SpecSelect: the random selections on candidate lists of their own.      *)
(***************************************************************************)
EXTENDS Integers, Sequences, FiniteSets, TLC

\* ----------------------------------------------------------------- bounds
NumUsers == 3
NumTeams == 2
NumPRs == 1
NumFramePRs == 2
MaxMembers == 3
MaxTime == 3
NumProcs == 2
NumCandidates == 4

UserIDs == 1..NumUsers
TeamNames == 1..NumTeams
PRIDs == 1..NumPRs
FramePRIDs == 1..NumFramePRs
Procs == 1..NumProcs

\* ------------------------------------------------------- program constants
StatusOpen == "OPEN"
StatusMerged == "MERGED"
\* the n of selectRandomReviewers(candidates, 2)
MaxReviewers == 2
\* merged_at IS NULL (sql.NullTime with Valid = false)
NullTime == 0
\* the Go zero value "" of a returned newReviewerID
NoUser == 0

\* error codes: the prefix of the error string before the colon
OK == "OK"
TEAM_EXISTS == "TEAM_EXISTS"
NOT_FOUND == "NOT_FOUND"
PR_EXISTS == "PR_EXISTS"
PR_MERGED == "PR_MERGED"
NOT_ASSIGNED == "NOT_ASSIGNED"
NO_CANDIDATE == "NO_CANDIDATE"
\* an error of the storage layer, returned as it comes (no code of the service)
STORAGE == "STORAGE_ERROR"

VARIABLES
    teams,          \* table teams: the set of team_name
    users,          \* table users: user_id -> [team_name, is_active]
    pull_requests,  \* table pull_requests: id -> [author_id, status, merged_at]
    pr_reviewers,   \* table pr_reviewers: a set of <<pull_request_id, reviewer_id>>
    now,            \* the last value time.Now() returned
    last,           \* the last call of Spec and what it returned
    procs           \* SpecConc: the calls in progress, by connection

vars == <<teams, users, pull_requests, pr_reviewers, now, last, procs>>
db == <<teams, users, pull_requests, pr_reviewers>>

\* ----------------------------------------------------------------- helpers
Min(a, b) == IF a < b THEN a ELSE b

Range(s) == {s[i] : i \in 1..Len(s)}

\* every order in which the rows of a set can be returned
Orders(S) == {s \in [1..Cardinality(S) -> S] : \A x \in S : \E i \in 1..Cardinality(S) : s[i] = x}

\* ORDER BY user_id / ORDER BY reviewer_id
SortedSeq(S) == CHOOSE s \in Orders(S) : \A i, j \in 1..Len(s) : i < j => s[i] < s[j]

\* the sequences without repetition of length n over the elements of s
Injections(s, n) == {q \in [1..n -> Range(s)] : \A i, j \in 1..n : i # j => q[i] # q[j]}

\* SELECT reviewer_id FROM pr_reviewers WHERE pull_request_id = p
ReviewersOf(R, p) == {r \in UserIDs : <<p, r>> \in R}

NoCall == [op |-> "none", pr |-> 0, user |-> 0, team |-> 0, err |-> OK,
           new |-> NoUser, count |-> 0, status |-> "", merged_at |-> NullTime]

\* a connection with no call in progress; w holds the rows its open transaction
\* has written and not committed
Idle == [op |-> "idle", pc |-> "idle", pr |-> 0, old |-> NoUser, status |-> "",
         team |-> 0, cur |-> <<>>, new |-> NoUser, wrote |-> FALSE, err |-> OK,
         safe |-> FALSE, queue |-> <<>>, count |-> 0, author |-> NoUser,
         w |-> [teams |-> {}, users |-> <<>>, pull_requests |-> <<>>, pr_reviewers |-> {}]]

Init ==
    /\ teams = {}
    /\ users = <<>>
    /\ pull_requests = <<>>
    /\ pr_reviewers = {}
    /\ now = 0
    /\ last = NoCall
    /\ procs = [i \in Procs |-> Idle]

\* ------------------------------------------------------------- CreateTeam
\* the upsert with "DO UPDATE SET is_active" only: a known user keeps its team
UpsertKeepTeam(U, member, teamName) ==
    [u \in DOMAIN U \cup {member.user_id} |->
        IF u = member.user_id
        THEN [team_name |-> IF u \in DOMAIN U THEN U[u].team_name ELSE teamName,
              is_active |-> member.is_active]
        ELSE U[u]]

\* INSERT INTO users ... ON CONFLICT (user_id) DO UPDATE SET team_name, is_active
Upsert(U, member, teamName) ==
    [u \in DOMAIN U \cup {member.user_id} |->
        IF u = member.user_id
        THEN [team_name |-> teamName, is_active |-> member.is_active]
        ELSE U[u]]

RECURSIVE UpsertMembers(_, _, _)
UpsertMembers(U, members, teamName) ==
    IF members = <<>> THEN U
    ELSE UpsertMembers(Upsert(U, Head(members), teamName), Tail(members), teamName)

\* the member lists a call is tried with: up to MaxMembers members, no user
\* listed twice, in the order of their ids (the upserts of different users
\* write different rows, so their order does not change what is written)
TeamMember == [user_id : UserIDs, is_active : BOOLEAN]
MemberLists ==
    {m \in UNION {[1..n -> TeamMember] : n \in 0..MaxMembers} :
        \A i, j \in 1..Len(m) : i < j => m[i].user_id < m[j].user_id}

\* the member lists that may also name a user more than once (the listings of
\* one user next to each other, in either order)
MemberListsRepeated ==
    {m \in UNION {[1..n -> TeamMember] : n \in 0..MaxMembers} :
        \A i, j \in 1..Len(m) : i < j => m[i].user_id <= m[j].user_id}

\* a create that skips the check of the name
TeamExistsUnchecked(T, teamName) == FALSE

\* SELECT EXISTS(SELECT 1 FROM teams WHERE team_name = $1)
TeamExists(T, teamName) == teamName \in T

\* the transaction of CreateTeam: what it writes and what the call returns
CreateTeamTx(teamName, members) ==
    /\ IF TeamExists(teams, teamName)
       THEN /\ UNCHANGED db
            /\ last' = [NoCall EXCEPT !.op = "CreateTeam", !.team = teamName, !.err = TEAM_EXISTS]
       ELSE /\ teams' = teams \cup {teamName}
            /\ users' = UpsertMembers(users, members, teamName)
            /\ UNCHANGED <<pull_requests, pr_reviewers>>
            /\ last' = [NoCall EXCEPT !.op = "CreateTeam", !.team = teamName]

CreateTeam(teamName, members) ==
    /\ CreateTeamTx(teamName, members)
    /\ UNCHANGED <<now, procs>>

\* ---------------------------------------------------------- SetUserActive
SetUserActive(userID, isActive) ==
    /\ IF userID \notin DOMAIN users
       THEN /\ UNCHANGED users
            /\ last' = [NoCall EXCEPT !.op = "SetUserActive", !.user = userID, !.err = NOT_FOUND]
       ELSE /\ users' = [users EXCEPT ![userID].is_active = isActive]
            /\ last' = [NoCall EXCEPT !.op = "SetUserActive", !.user = userID]
    /\ UNCHANGED <<teams, pull_requests, pr_reviewers, now, procs>>

\* --------------------------------------------------------- GetPullRequest
\* the hydrated PR a call returns: status, merged_at and the reviewers in id order
GetPullRequest(P, R, prID) ==
    [status |-> P[prID].status, merged_at |-> P[prID].merged_at,
     assigned_reviewers |-> SortedSeq(ReviewersOf(R, prID))]

\* ------------------------------------------------------ CreatePullRequest
\* a selection that takes the first n candidates as they were read
selectFirstReviewers(candidates, n) ==
    {SubSeq(candidates, 1, Min(n, Len(candidates)))}

\* the possible results of selectRandomReviewers(candidates, n)
selectRandomReviewers(candidates, n) ==
    IF Len(candidates) = 0 THEN {<<>>}
    ELSE IF Len(candidates) <= n THEN Injections(candidates, Len(candidates))
    ELSE Injections(candidates, n)

\* the candidate query without "AND is_active = true"
CreateCandidatesAnyActivity(U, teamName, authorID) ==
    SortedSeq({u \in DOMAIN U : U[u].team_name = teamName /\ u # authorID})

\* SELECT user_id FROM users WHERE team_name = $1 AND is_active AND user_id != $2 ORDER BY user_id
CreateCandidates(U, teamName, authorID) ==
    SortedSeq({u \in DOMAIN U : U[u].team_name = teamName /\ U[u].is_active /\ u # authorID})

\* a create that skips the check of the id
PRExistsUnchecked(P, prID) == FALSE

\* SELECT EXISTS(SELECT 1 FROM pull_requests WHERE pull_request_id = $1)
PRExists(P, prID) == prID \in DOMAIN P

\* the two checks in the other order: the author first
CreateFailureAuthorFirst(P, U, prID, authorID) ==
    IF authorID \notin DOMAIN U THEN NOT_FOUND
    ELSE IF PRExists(P, prID) THEN PR_EXISTS
    ELSE OK

\* the checks before the insert: the id, then SELECT team_name FROM users
\* WHERE user_id = $1 for the author
CreateFailure(P, U, prID, authorID) ==
    IF PRExists(P, prID) THEN PR_EXISTS
    ELSE IF authorID \notin DOMAIN U THEN NOT_FOUND
    ELSE OK

CreatePullRequest(prID, authorID) ==
    /\ IF CreateFailure(pull_requests, users, prID, authorID) # OK
       THEN /\ UNCHANGED <<db, now>>
            /\ last' = [NoCall EXCEPT !.op = "CreatePullRequest", !.pr = prID,
                                      !.user = authorID,
                                      !.err = CreateFailure(pull_requests, users, prID, authorID)]
       ELSE /\ pull_requests' =
                  [p \in DOMAIN pull_requests \cup {prID} |->
                      IF p = prID
                      THEN [author_id |-> authorID, status |-> StatusOpen,
                            merged_at |-> NullTime]
                      ELSE pull_requests[p]]
            /\ UNCHANGED now
            /\ \E reviewers \in selectRandomReviewers(
                                   CreateCandidates(users, users[authorID].team_name, authorID),
                                   MaxReviewers) :
                  pr_reviewers' = pr_reviewers \cup {<<prID, r>> : r \in Range(reviewers)}
            /\ UNCHANGED <<teams, users>>
            /\ last' = [NoCall EXCEPT !.op = "CreatePullRequest", !.pr = prID,
                                      !.user = authorID, !.status = StatusOpen]
    /\ UNCHANGED procs

\* ------------------------------------------------------- MergePullRequest
\* UPDATE pull_requests SET status = 'MERGED', merged_at = t WHERE pull_request_id = prID
\* an UPDATE without the WHERE clause: every pull request is merged
MergeUpdateAll(P, prID, t) ==
    [p \in DOMAIN P |-> [P[p] EXCEPT !.status = StatusMerged, !.merged_at = t]]

\* an UPDATE that sets the status and leaves merged_at alone
MergeUpdateStatusOnly(P, prID, t) ==
    [P EXCEPT ![prID].status = StatusMerged]

MergeUpdate(P, prID, t) ==
    [P EXCEPT ![prID].status = StatusMerged, ![prID].merged_at = t]

\* a merge that does not look at the status it read
AlreadyMergedIgnored(currentStatus) == FALSE

\* the check of the status read before the update
AlreadyMerged(currentStatus) == currentStatus = StatusMerged

MergePullRequest(prID) ==
    /\ IF prID \notin DOMAIN pull_requests
       THEN /\ UNCHANGED <<pull_requests, now>>
            /\ last' = [NoCall EXCEPT !.op = "MergePullRequest", !.pr = prID, !.err = NOT_FOUND]
       ELSE IF AlreadyMerged(pull_requests[prID].status)
       THEN /\ UNCHANGED <<pull_requests, now>>
            /\ last' = [NoCall EXCEPT !.op = "MergePullRequest", !.pr = prID,
                           !.status = GetPullRequest(pull_requests, pr_reviewers, prID).status,
                           !.merged_at = GetPullRequest(pull_requests, pr_reviewers, prID).merged_at]
       ELSE /\ now < MaxTime
            /\ now' = now + 1
            /\ pull_requests' = MergeUpdate(pull_requests, prID, now')
            /\ last' = [NoCall EXCEPT !.op = "MergePullRequest", !.pr = prID,
                           !.status = GetPullRequest(pull_requests', pr_reviewers, prID).status,
                           !.merged_at = GetPullRequest(pull_requests', pr_reviewers, prID).merged_at]
    /\ UNCHANGED <<teams, users, pr_reviewers, procs>>

\* ------------------------------------------------------- ReassignReviewer
\* args of the candidate query: $1 = team_name, $2 = old reviewer, then one
\* argument appended for every current reviewer other than the old one
ReassignArgs(teamName, oldUserID, currentReviewers) ==
    <<teamName, oldUserID>> \o SelectSeq(currentReviewers, LAMBDA r : r # oldUserID)

\* the numbers n of the " AND user_id != $n" the loop appends: i+3 for the
\* reviewer at index i of currentReviewers (from 0), i.e. j+2 for position j (from 1)
ReassignPlaceholders(oldUserID, currentReviewers) ==
    {j + 2 : j \in {k \in 1..Len(currentReviewers) : currentReviewers[k] # oldUserID}}

\* the server accepts the statement when the parameters it refers to are
\* exactly the arguments sent with it
QueryAccepted(args, placeholders) == {1, 2} \cup placeholders = 1..Len(args)

\* the candidate query of ReassignReviewer without "team_name = $1"
ReassignCandidatesAnyTeam(U, args, placeholders) ==
    {u \in DOMAIN U : /\ U[u].is_active
                      /\ u # args[2]
                      /\ \A n \in placeholders : u # args[n]}

\* the candidate query of ReassignReviewer without "AND is_active = true"
ReassignCandidatesAnyActivity(U, args, placeholders) ==
    {u \in DOMAIN U : /\ U[u].team_name = args[1]
                      /\ u # args[2]
                      /\ \A n \in placeholders : u # args[n]}

\* SELECT user_id FROM users WHERE team_name = $1 AND is_active = true
\*   AND user_id != $2 [AND user_id != $n ...]
ReassignCandidates(U, args, placeholders) ==
    {u \in DOMAIN U : /\ U[u].team_name = args[1]
                      /\ U[u].is_active
                      /\ u # args[2]
                      /\ \A n \in placeholders : u # args[n]}

\* the update without "pull_request_id = $2": every assignment of the old reviewer
ReplaceReviewerEverywhere(R, prID, oldUserID, newReviewerID) ==
    {IF x[2] = oldUserID THEN <<x[1], newReviewerID>> ELSE x : x \in R}

\* UPDATE pr_reviewers SET reviewer_id = new WHERE pull_request_id = prID AND reviewer_id = old
ReplaceReviewer(R, prID, oldUserID, newReviewerID) ==
    IF <<prID, oldUserID>> \in R
    THEN (R \ {<<prID, oldUserID>>}) \cup {<<prID, newReviewerID>>}
    ELSE R

\* a table pr_reviewers without its primary key: no update is refused
UpdateViolatesKeyUnenforced(R, prID, oldUserID, newReviewerID) == FALSE

\* PRIMARY KEY (pull_request_id, reviewer_id): the update is refused
UpdateViolatesKey(R, prID, oldUserID, newReviewerID) ==
    /\ <<prID, oldUserID>> \in R
    /\ newReviewerID # oldUserID
    /\ <<prID, newReviewerID>> \in R

ReassignFailure(R, code) == [err |-> code, new |-> NoUser, R |-> R]

\* what the candidate query and the replacement do, for one order of currentReviewers
ReassignSelect(U, R, prID, oldUserID, currentReviewers) ==
    LET args == ReassignArgs(U[oldUserID].team_name, oldUserID, currentReviewers)
        placeholders == ReassignPlaceholders(oldUserID, currentReviewers)
        candidates == ReassignCandidates(U, args, placeholders)
    IN  IF ~QueryAccepted(args, placeholders) THEN {ReassignFailure(R, STORAGE)}
        ELSE IF candidates = {} THEN {ReassignFailure(R, NO_CANDIDATE)}
        ELSE {IF UpdateViolatesKey(R, prID, oldUserID, newReviewerID)
              THEN ReassignFailure(R, STORAGE)
              ELSE [err |-> OK, new |-> newReviewerID,
                    R |-> ReplaceReviewer(R, prID, oldUserID, newReviewerID)]
              : newReviewerID \in candidates}

\* the checks in another order: the assignment of the old reviewer first
ReassignOutcomesAssignedFirst(P, U, R, prID, oldUserID) ==
    IF prID \notin DOMAIN P THEN {ReassignFailure(R, NOT_FOUND)}
    ELSE IF <<prID, oldUserID>> \notin R THEN {ReassignFailure(R, NOT_ASSIGNED)}
    ELSE IF P[prID].status = StatusMerged THEN {ReassignFailure(R, PR_MERGED)}
    ELSE IF oldUserID \notin DOMAIN U THEN {ReassignFailure(R, NOT_FOUND)}
    ELSE UNION {ReassignSelect(U, R, prID, oldUserID, currentReviewers)
                : currentReviewers \in Orders(ReviewersOf(R, prID))}

\* the checks in another order: the team of the old reviewer before its assignment
ReassignOutcomesTeamFirst(P, U, R, prID, oldUserID) ==
    IF prID \notin DOMAIN P THEN {ReassignFailure(R, NOT_FOUND)}
    ELSE IF P[prID].status = StatusMerged THEN {ReassignFailure(R, PR_MERGED)}
    ELSE IF oldUserID \notin DOMAIN U THEN {ReassignFailure(R, NOT_FOUND)}
    ELSE IF <<prID, oldUserID>> \notin R THEN {ReassignFailure(R, NOT_ASSIGNED)}
    ELSE UNION {ReassignSelect(U, R, prID, oldUserID, currentReviewers)
                : currentReviewers \in Orders(ReviewersOf(R, prID))}

\* the possible results of ReassignReviewer(prID, oldUserID) run alone on the
\* tables P, U, R: the error, the new reviewer and the table pr_reviewers after
ReassignOutcomes(P, U, R, prID, oldUserID) ==
    IF prID \notin DOMAIN P THEN {ReassignFailure(R, NOT_FOUND)}
    ELSE IF P[prID].status = StatusMerged THEN {ReassignFailure(R, PR_MERGED)}
    ELSE IF <<prID, oldUserID>> \notin R THEN {ReassignFailure(R, NOT_ASSIGNED)}
    ELSE IF oldUserID \notin DOMAIN U THEN {ReassignFailure(R, NOT_FOUND)}
    ELSE UNION {ReassignSelect(U, R, prID, oldUserID, currentReviewers)
                : currentReviewers \in Orders(ReviewersOf(R, prID))}

ReassignReviewer(prID, oldUserID) ==
    /\ \E o \in ReassignOutcomes(pull_requests, users, pr_reviewers, prID, oldUserID) :
          /\ pr_reviewers' = o.R
          /\ last' = [NoCall EXCEPT !.op = "ReassignReviewer", !.pr = prID, !.user = oldUserID,
                                    !.err = o.err, !.new = o.new]
    /\ UNCHANGED <<teams, users, pull_requests, now, procs>>

\* ---------------------------------------------------- BulkDeactivateUsers
\* the update without the check of the user's team
BulkTargetsAnyTeam(U, teamName, userIDs) == userIDs \cap DOMAIN U

\* the users of the list that pass both checks of the loop: the row exists
\* and its team_name is teamName
BulkTargets(U, teamName, userIDs) ==
    {u \in userIDs \cap DOMAIN U : U[u].team_name = teamName}

\* the transaction of BulkDeactivateUsers and what the call returns
BulkDeactivateUsersTx(teamName, userIDs) ==
    /\ IF teamName \notin teams
       THEN /\ UNCHANGED users
            /\ last' = [NoCall EXCEPT !.op = "BulkDeactivateUsers", !.team = teamName,
                                      !.err = NOT_FOUND]
       ELSE /\ users' = [u \in DOMAIN users |->
                            IF u \in BulkTargets(users, teamName, userIDs)
                            THEN [users[u] EXCEPT !.is_active = FALSE]
                            ELSE users[u]]
            /\ last' = [NoCall EXCEPT !.op = "BulkDeactivateUsers", !.team = teamName]
    /\ UNCHANGED <<teams, pull_requests, pr_reviewers>>

BulkDeactivateUsers(teamName, userIDs) ==
    /\ BulkDeactivateUsersTx(teamName, userIDs)
    /\ UNCHANGED <<now, procs>>

\* ---------------------------------------------------- SafeReassignOpenPRs
\* SELECT DISTINCT pr.pull_request_id, prr.reviewer_id ... WHERE pr.status = 'OPEN'
\*   AND prr.reviewer_id = ANY($1) AND u.is_active = false
ToReassign(P, U, R, deactivatedUserIDs) ==
    {x \in R : /\ x[1] \in DOMAIN P
               /\ P[x[1]].status = StatusOpen
               /\ x[2] \in deactivatedUserIDs
               /\ x[2] \in DOMAIN U
               /\ ~U[x[2]].is_active}

\* a loop that counts every attempt
CountedAlways(reassignedCount, err) == reassignedCount + 1

\* _, _, err := s.ReassignReviewer(...); if err == nil { reassignedCount++ }
Counted(reassignedCount, err) ==
    IF err = OK THEN reassignedCount + 1 ELSE reassignedCount

\* the loop over toReassign: every ReassignReviewer sees what the ones before it wrote
RECURSIVE SafeReassignLoop(_, _, _, _, _)
SafeReassignLoop(P, U, R, toReassign, reassignedCount) ==
    IF toReassign = <<>> THEN {[R |-> R, count |-> reassignedCount]}
    ELSE UNION {SafeReassignLoop(P, U, o.R, Tail(toReassign),
                                 Counted(reassignedCount, o.err))
                : o \in ReassignOutcomes(P, U, R, Head(toReassign)[1], Head(toReassign)[2])}

SafeReassignOpenPRs(deactivatedUserIDs) ==
    /\ \E toReassign \in Orders(ToReassign(pull_requests, users, pr_reviewers, deactivatedUserIDs)) :
       \E o \in SafeReassignLoop(pull_requests, users, pr_reviewers, toReassign, 0) :
          /\ pr_reviewers' = o.R
          /\ last' = [NoCall EXCEPT !.op = "SafeReassignOpenPRs", !.count = o.count]
    /\ UNCHANGED <<teams, users, pull_requests, now, procs>>

\* ------------------------------------------------------------------- Spec
\* the calls of the service, one after another
Next ==
    \/ \E teamName \in TeamNames, members \in MemberLists : CreateTeam(teamName, members)
    \/ \E userID \in UserIDs, isActive \in BOOLEAN : SetUserActive(userID, isActive)
    \/ \E prID \in PRIDs, authorID \in UserIDs : CreatePullRequest(prID, authorID)
    \/ \E prID \in PRIDs : MergePullRequest(prID)
    \/ \E prID \in PRIDs, oldUserID \in UserIDs : ReassignReviewer(prID, oldUserID)
    \/ \E teamName \in TeamNames, userIDs \in SUBSET UserIDs : BulkDeactivateUsers(teamName, userIDs)
    \/ \E deactivatedUserIDs \in SUBSET UserIDs : SafeReassignOpenPRs(deactivatedUserIDs)

Spec == Init /\ [][Next]_vars

\* -------------------------------------------------------------- SpecFrame
\* several pull requests of one team: the state after one CreateTeam(FrameTeam,
\* members), then the calls that write pull requests, their reviewers and the
\* activity of the users
FrameTeam == CHOOSE teamName \in TeamNames : TRUE

InitFrame ==
    /\ \E members \in MemberLists :
          /\ teams = {FrameTeam}
          /\ users = UpsertMembers(<<>>, members, FrameTeam)
    /\ pull_requests = <<>>
    /\ pr_reviewers = {}
    /\ now = 0
    /\ last = NoCall
    /\ procs = [i \in Procs |-> Idle]

NextFrame ==
    \/ \E userID \in UserIDs, isActive \in BOOLEAN : SetUserActive(userID, isActive)
    \/ \E prID \in FramePRIDs, authorID \in UserIDs : CreatePullRequest(prID, authorID)
    \/ \E prID \in FramePRIDs : MergePullRequest(prID)
    \/ \E prID \in FramePRIDs, oldUserID \in UserIDs : ReassignReviewer(prID, oldUserID)

SpecFrame == InitFrame /\ [][NextFrame]_vars

\* --------------------------------------------------------------- SpecTeam
\* one CreateTeam or BulkDeactivateUsers call with any list, on the tables left
\* by zero, one or two successful CreateTeam calls and at most one
\* CreatePullRequest; the connection keeps the request it ran
CreateTeamCall(i, teamName, members) ==
    /\ \A j \in Procs : procs[j] = Idle
    /\ CreateTeamTx(teamName, members)
    /\ procs' = [procs EXCEPT ![i] = [Idle EXCEPT !.op = "CreateTeam", !.pc = "done",
                                                  !.team = teamName, !.cur = members,
                                                  !.err = last'.err]]
    /\ UNCHANGED now

BulkDeactivateCall(i, teamName, userIDs) ==
    /\ \A j \in Procs : procs[j] = Idle
    /\ BulkDeactivateUsersTx(teamName, userIDs)
    /\ procs' = [procs EXCEPT ![i] = [Idle EXCEPT !.op = "BulkDeactivateUsers", !.pc = "done",
                                                  !.team = teamName, !.cur = SortedSeq(userIDs),
                                                  !.err = last'.err]]
    /\ UNCHANGED now

\* the tables pull_requests and pr_reviewers after no call, or after one
\* successful CreatePullRequest on the users U
CreatedPRs(U) ==
    {[P |-> <<>>, R |-> {}]} \cup
    UNION {{[P |-> [p \in {prID} |-> [author_id |-> authorID, status |-> StatusOpen,
                                      merged_at |-> NullTime]],
             R |-> {<<prID, r>> : r \in Range(reviewers)}]
            : reviewers \in selectRandomReviewers(
                                CreateCandidates(U, U[authorID].team_name, authorID),
                                MaxReviewers)}
           : prID \in PRIDs, authorID \in DOMAIN U}

\* the tables of InitTeam, and no call on any connection
InitTables ==
    /\ \E T \in SUBSET TeamNames, first, second \in MemberLists :
       \E U \in {IF T = {} THEN <<>>
                 ELSE IF T = TeamNames
                 THEN UpsertMembers(UpsertMembers(<<>>, first, FrameTeam), second,
                                    CHOOSE teamName \in TeamNames : teamName # FrameTeam)
                 ELSE UpsertMembers(<<>>, first, CHOOSE teamName \in T : TRUE)} :
       \E created \in CreatedPRs(U) :
          /\ teams = T
          /\ users = U
          /\ pull_requests = created.P
          /\ pr_reviewers = created.R
    /\ now = 0
    /\ procs = [i \in Procs |-> Idle]

InitTeam == InitTables /\ last = NoCall

NextTeam ==
    \/ \E i \in Procs, teamName \in TeamNames, members \in MemberListsRepeated :
          CreateTeamCall(i, teamName, members)
    \/ \E i \in Procs, teamName \in TeamNames, userIDs \in SUBSET UserIDs :
          BulkDeactivateCall(i, teamName, userIDs)

SpecTeam == InitTeam /\ [][NextTeam]_vars

\* --------------------------------------------------------------- SpecConc
\* MergePullRequest and ReassignReviewer statement by statement.  Every
\* statement reads the rows committed when it runs (READ COMMITTED); the
\* statements of MergePullRequest run outside a transaction and commit one by
\* one; ReassignReviewer writes in its last statement and commits after it.

Free(i) == procs[i].pc \in {"idle", "done"} /\ ~procs[i].safe

Done(i, code) == [procs[i] EXCEPT !.pc = "done", !.err = code]

\* -- MergePullRequest
MergeBegin(i, prID) ==
    /\ Free(i)
    /\ procs' = [procs EXCEPT ![i] = [Idle EXCEPT !.op = "MergePullRequest", !.pc = "select",
                                                  !.pr = prID]]
    /\ UNCHANGED <<db, now, last>>

\* SELECT status, merged_at FROM pull_requests WHERE pull_request_id = $1
MergeSelect(i) ==
    /\ procs[i].op = "MergePullRequest" /\ procs[i].pc = "select"
    /\ procs' = [procs EXCEPT ![i] =
          IF procs[i].pr \notin DOMAIN pull_requests THEN Done(i, NOT_FOUND)
          ELSE IF AlreadyMerged(pull_requests[procs[i].pr].status)
          THEN [procs[i] EXCEPT !.pc = "get", !.status = pull_requests[procs[i].pr].status]
          ELSE [procs[i] EXCEPT !.pc = "update", !.status = pull_requests[procs[i].pr].status]]
    /\ UNCHANGED <<db, now, last>>

\* now := time.Now(); UPDATE pull_requests SET status, merged_at
MergeExec(i) ==
    /\ procs[i].op = "MergePullRequest" /\ procs[i].pc = "update"
    /\ now < MaxTime
    /\ now' = now + 1
    /\ pull_requests' = MergeUpdate(pull_requests, procs[i].pr, now')
    /\ procs' = [procs EXCEPT ![i].pc = "get"]
    /\ UNCHANGED <<teams, users, pr_reviewers, last>>

\* return s.GetPullRequest(prID)
MergeReturn(i) ==
    /\ procs[i].op = "MergePullRequest" /\ procs[i].pc = "get"
    /\ procs' = [procs EXCEPT ![i] =
          [Done(i, OK) EXCEPT !.status = GetPullRequest(pull_requests, pr_reviewers, procs[i].pr).status]]
    /\ UNCHANGED <<db, now, last>>

\* -- ReassignReviewer
ReassignBegin(i, prID, oldUserID) ==
    /\ Free(i)
    /\ procs' = [procs EXCEPT ![i] = [Idle EXCEPT !.op = "ReassignReviewer", !.pc = "select",
                                                  !.pr = prID, !.old = oldUserID]]
    /\ UNCHANGED <<db, now, last>>

\* SELECT ... status FROM pull_requests WHERE pull_request_id = $1, and the check of it
ReassignSelectPR(i) ==
    /\ procs[i].op = "ReassignReviewer" /\ procs[i].pc = "select"
    /\ procs' = [procs EXCEPT ![i] =
          IF procs[i].pr \notin DOMAIN pull_requests THEN Done(i, NOT_FOUND)
          ELSE IF pull_requests[procs[i].pr].status = StatusMerged THEN Done(i, PR_MERGED)
          ELSE [procs[i] EXCEPT !.pc = "assigned", !.status = pull_requests[procs[i].pr].status]]
    /\ UNCHANGED <<db, now, last>>

\* SELECT EXISTS(SELECT 1 FROM pr_reviewers WHERE pull_request_id = $1 AND reviewer_id = $2)
ReassignSelectAssigned(i) ==
    /\ procs[i].op = "ReassignReviewer" /\ procs[i].pc = "assigned"
    /\ procs' = [procs EXCEPT ![i] =
          IF <<procs[i].pr, procs[i].old>> \notin pr_reviewers THEN Done(i, NOT_ASSIGNED)
          ELSE [procs[i] EXCEPT !.pc = "team"]]
    /\ UNCHANGED <<db, now, last>>

\* SELECT team_name FROM users WHERE user_id = $1
ReassignSelectTeam(i) ==
    /\ procs[i].op = "ReassignReviewer" /\ procs[i].pc = "team"
    /\ procs' = [procs EXCEPT ![i] =
          IF procs[i].old \notin DOMAIN users THEN Done(i, NOT_FOUND)
          ELSE [procs[i] EXCEPT !.pc = "current", !.team = users[procs[i].old].team_name]]
    /\ UNCHANGED <<db, now, last>>

\* SELECT reviewer_id FROM pr_reviewers WHERE pull_request_id = $1 (in any order)
ReassignSelectCurrent(i) ==
    /\ procs[i].op = "ReassignReviewer" /\ procs[i].pc = "current"
    /\ \E currentReviewers \in Orders(ReviewersOf(pr_reviewers, procs[i].pr)) :
          procs' = [procs EXCEPT ![i] = [procs[i] EXCEPT !.pc = "candidates",
                                                         !.cur = currentReviewers]]
    /\ UNCHANGED <<db, now, last>>

\* the candidate query, and candidates[rand.Intn(len(candidates))]
ReassignSelectCandidates(i) ==
    /\ procs[i].op = "ReassignReviewer" /\ procs[i].pc = "candidates"
    /\ LET args == ReassignArgs(procs[i].team, procs[i].old, procs[i].cur)
           placeholders == ReassignPlaceholders(procs[i].old, procs[i].cur)
           candidates == ReassignCandidates(users, args, placeholders)
       IN  IF ~QueryAccepted(args, placeholders)
           THEN procs' = [procs EXCEPT ![i] = Done(i, STORAGE)]
           ELSE IF candidates = {}
           THEN procs' = [procs EXCEPT ![i] = Done(i, NO_CANDIDATE)]
           ELSE \E newReviewerID \in candidates :
                   procs' = [procs EXCEPT ![i] = [procs[i] EXCEPT !.pc = "update",
                                                                  !.new = newReviewerID]]
    /\ UNCHANGED <<db, now, last>>

\* the rows of pr_reviewers an uncommitted UPDATE of connection j has locked:
\* the row it replaces and the key it writes
LockedBy(j) ==
    IF procs[j].op = "ReassignReviewer" /\ procs[j].pc = "commit" /\ procs[j].wrote
    THEN {<<procs[j].pr, procs[j].old>>, <<procs[j].pr, procs[j].new>>}
    ELSE {}

\* UPDATE pr_reviewers SET reviewer_id = $1 WHERE pull_request_id = $2 AND reviewer_id = $3:
\* it waits for the transactions that hold its rows, then sees what they committed;
\* a statement that matches no row is no error
ReassignExec(i) ==
    /\ procs[i].op = "ReassignReviewer" /\ procs[i].pc = "update"
    /\ \A j \in Procs \ {i} :
          LockedBy(j) \cap {<<procs[i].pr, procs[i].old>>, <<procs[i].pr, procs[i].new>>} = {}
    /\ procs' = [procs EXCEPT ![i] =
          IF UpdateViolatesKey(pr_reviewers, procs[i].pr, procs[i].old, procs[i].new)
          THEN Done(i, STORAGE)
          ELSE [procs[i] EXCEPT !.pc = "commit",
                                !.wrote = <<procs[i].pr, procs[i].old>> \in pr_reviewers]]
    /\ UNCHANGED <<db, now, last>>

\* tx.Commit(), then return updatedPR, newReviewerID, nil
ReassignCommit(i) ==
    /\ procs[i].op = "ReassignReviewer" /\ procs[i].pc = "commit"
    /\ pr_reviewers' = IF procs[i].wrote
                       THEN ReplaceReviewer(pr_reviewers, procs[i].pr, procs[i].old, procs[i].new)
                       ELSE pr_reviewers
    /\ procs' = [procs EXCEPT ![i] = Done(i, OK)]
    /\ UNCHANGED <<teams, users, pull_requests, now, last>>

\* the state after CreateTeam(FrameTeam, members), CreatePullRequest(prID, author)
\* and any number of SetUserActive calls
InitConc ==
    /\ \E members \in MemberLists :
       \E U \in {UpsertMembers(<<>>, members, FrameTeam)} :
       \E prID \in PRIDs, authorID \in DOMAIN U :
       \E reviewers \in selectRandomReviewers(CreateCandidates(U, FrameTeam, authorID),
                                              MaxReviewers) :
       \E active \in [DOMAIN U -> BOOLEAN] :
          /\ teams = {FrameTeam}
          /\ users = [u \in DOMAIN U |-> [U[u] EXCEPT !.is_active = active[u]]]
          /\ pull_requests = [p \in {prID} |-> [author_id |-> authorID, status |-> StatusOpen,
                                                merged_at |-> NullTime]]
          /\ pr_reviewers = {<<prID, r>> : r \in Range(reviewers)}
    /\ now = 0
    /\ last = NoCall
    /\ procs = [i \in Procs |-> Idle]

NextConc ==
    \/ \E i \in Procs, prID \in PRIDs : MergeBegin(i, prID)
    \/ \E i \in Procs : MergeSelect(i)
    \/ \E i \in Procs : MergeExec(i)
    \/ \E i \in Procs : MergeReturn(i)
    \/ \E i \in Procs, prID \in PRIDs, oldUserID \in UserIDs : ReassignBegin(i, prID, oldUserID)
    \/ \E i \in Procs : ReassignSelectPR(i)
    \/ \E i \in Procs : ReassignSelectAssigned(i)
    \/ \E i \in Procs : ReassignSelectTeam(i)
    \/ \E i \in Procs : ReassignSelectCurrent(i)
    \/ \E i \in Procs : ReassignSelectCandidates(i)
    \/ \E i \in Procs : ReassignExec(i)
    \/ \E i \in Procs : ReassignCommit(i)

SpecConc == InitConc /\ [][NextConc]_vars

\* --------------------------------------------------------------- SpecSafe
\* SafeReassignOpenPRs statement by statement, next to ReassignReviewer calls
\* of other connections: its query runs outside a transaction, then every pair
\* it found gets a ReassignReviewer call of its own (safe marks that call)

\* if len(deactivatedUserIDs) == 0 { return 0, nil }
SafeBegin(i, deactivatedUserIDs) ==
    /\ Free(i)
    /\ procs' = [procs EXCEPT ![i] =
          [Idle EXCEPT !.op = "SafeReassignOpenPRs",
                       !.pc = IF deactivatedUserIDs = {} THEN "done" ELSE "query",
                       !.cur = SortedSeq(deactivatedUserIDs)]]
    /\ UNCHANGED <<db, now, last>>

\* s.db.Query(query, deactivatedUserIDs) and the scan of its rows into toReassign
SafeQuery(i) ==
    /\ procs[i].op = "SafeReassignOpenPRs" /\ procs[i].pc = "query"
    /\ \E toReassign \in Orders(ToReassign(pull_requests, users, pr_reviewers,
                                            Range(procs[i].cur))) :
          procs' = [procs EXCEPT ![i] = [procs[i] EXCEPT !.pc = "loop", !.queue = toReassign]]
    /\ UNCHANGED <<db, now, last>>

\* for _, info := range toReassign { s.ReassignReviewer(info.prID, info.oldID) ... };
\* return reassignedCount, nil
SafeLoop(i) ==
    /\ procs[i].op = "SafeReassignOpenPRs" /\ procs[i].pc = "loop"
    /\ procs' = [procs EXCEPT ![i] =
          IF procs[i].queue = <<>>
          THEN [procs[i] EXCEPT !.pc = "done", !.err = OK]
          ELSE [Idle EXCEPT !.op = "ReassignReviewer", !.pc = "select",
                            !.pr = Head(procs[i].queue)[1], !.old = Head(procs[i].queue)[2],
                            !.safe = TRUE, !.queue = Tail(procs[i].queue),
                            !.count = procs[i].count]]
    /\ UNCHANGED <<db, now, last>>

\* if err == nil { reassignedCount++ }
SafeResume(i) ==
    /\ procs[i].op = "ReassignReviewer" /\ procs[i].pc = "done" /\ procs[i].safe
    /\ procs' = [procs EXCEPT ![i] =
          [procs[i] EXCEPT !.op = "SafeReassignOpenPRs", !.pc = "loop", !.safe = FALSE,
                           !.count = Counted(procs[i].count, procs[i].err)]]
    /\ UNCHANGED <<db, now, last>>

NextSafe ==
    \/ \E i \in Procs, deactivatedUserIDs \in SUBSET UserIDs : SafeBegin(i, deactivatedUserIDs)
    \/ \E i \in Procs : SafeQuery(i)
    \/ \E i \in Procs : SafeLoop(i)
    \/ \E i \in Procs : SafeResume(i)
    \/ \E i \in Procs, prID \in PRIDs, oldUserID \in UserIDs : ReassignBegin(i, prID, oldUserID)
    \/ \E i \in Procs : ReassignSelectPR(i)
    \/ \E i \in Procs : ReassignSelectAssigned(i)
    \/ \E i \in Procs : ReassignSelectTeam(i)
    \/ \E i \in Procs : ReassignSelectCurrent(i)
    \/ \E i \in Procs : ReassignSelectCandidates(i)
    \/ \E i \in Procs : ReassignExec(i)
    \/ \E i \in Procs : ReassignCommit(i)

SpecSafe == InitConc /\ [][NextSafe]_vars

\* ------------------------------------------------------------ transactions
\* CreateTeam, BulkDeactivateUsers and CreatePullRequest statement by statement.
\* A transaction reads the committed rows and its own writes; a row it wrote
\* stays locked until it commits or rolls back, and a statement that writes a
\* row (or inserts a key) another open transaction wrote waits for it.

InTx(i) == procs[i].pc \notin {"idle", "done"}

\* return err with the deferred tx.Rollback(), or return after tx.Commit()
Finish(i, code) == [procs[i] EXCEPT !.pc = "done", !.err = code, !.w = Idle.w]

\* the rows of b laid over the rows of a
Overlay(a, b) == [x \in DOMAIN a \cup DOMAIN b |-> IF x \in DOMAIN b THEN b[x] ELSE a[x]]

\* the keys connection j holds: the rows its open transaction wrote
Held(j) ==
    IF InTx(j)
    THEN {<<"teams", t>> : t \in procs[j].w.teams}
            \cup {<<"users", u>> : u \in DOMAIN procs[j].w.users}
            \cup {<<"pull_requests", p>> : p \in DOMAIN procs[j].w.pull_requests}
    ELSE {}

\* the key the next statement of connection i writes
Wanted(i) ==
    IF procs[i].op = "CreateTeam" /\ procs[i].pc = "insert"
    THEN {<<"teams", procs[i].team>>}
    ELSE IF procs[i].op = "CreateTeam" /\ procs[i].pc = "upsert"
            /\ procs[i].count < Len(procs[i].cur)
    THEN {<<"users", procs[i].cur[procs[i].count + 1].user_id>>}
    ELSE IF procs[i].op = "BulkDeactivateUsers" /\ procs[i].pc = "update"
    THEN {<<"users", procs[i].cur[procs[i].count + 1]>>}
    ELSE IF procs[i].op = "CreatePullRequest" /\ procs[i].pc = "insert"
    THEN {<<"pull_requests", procs[i].pr>>}
    ELSE {}

\* the connections whose open transaction the next statement of i waits for
WaitsFor(i) == {j \in Procs \ {i} : Wanted(i) \cap Held(j) # {}}

RECURSIVE WaitClosure(_, _)
WaitClosure(S, n) ==
    IF n = 0 THEN S ELSE WaitClosure(S \cup UNION {WaitsFor(j) : j \in S}, n - 1)

\* a storage that never looks for a cycle of waits
InWaitCycleUndetected(i) == FALSE

\* connection i waits, through other waiting connections, for itself
InWaitCycle(i) == i \in WaitClosure(WaitsFor(i), NumProcs)

\* PostgreSQL's deadlock detector: a waiting statement that closes a cycle of
\* waits fails ("deadlock detected"), the call returns that error and rolls back
DeadlockDetected(i) ==
    /\ InTx(i)
    /\ InWaitCycle(i)
    /\ procs' = [procs EXCEPT ![i] = Finish(i, STORAGE)]
    /\ UNCHANGED <<db, now, last>>

\* -- CreateTeam
CreateTeamBegin(i, teamName, members) ==
    /\ Free(i)
    /\ procs' = [procs EXCEPT ![i] = [Idle EXCEPT !.op = "CreateTeam", !.pc = "exists",
                                                  !.team = teamName, !.cur = members]]
    /\ UNCHANGED <<db, now, last>>

\* SELECT EXISTS(SELECT 1 FROM teams WHERE team_name = $1)
CreateTeamSelect(i) ==
    /\ procs[i].op = "CreateTeam" /\ procs[i].pc = "exists"
    /\ procs' = [procs EXCEPT ![i] =
          IF TeamExists(teams, procs[i].team) THEN Finish(i, TEAM_EXISTS)
          ELSE [procs[i] EXCEPT !.pc = "insert"]]
    /\ UNCHANGED <<db, now, last>>

\* INSERT INTO teams (team_name) VALUES ($1): a name committed meanwhile
\* violates the primary key
CreateTeamInsert(i) ==
    /\ procs[i].op = "CreateTeam" /\ procs[i].pc = "insert"
    /\ WaitsFor(i) = {}
    /\ procs' = [procs EXCEPT ![i] =
          IF procs[i].team \in teams THEN Finish(i, STORAGE)
          ELSE [procs[i] EXCEPT !.pc = "upsert", !.count = 0,
                                !.w.teams = {procs[i].team}]]
    /\ UNCHANGED <<db, now, last>>

\* the upsert of the next member
CreateTeamUpsert(i) ==
    /\ procs[i].op = "CreateTeam" /\ procs[i].pc = "upsert"
    /\ procs[i].count < Len(procs[i].cur)
    /\ WaitsFor(i) = {}
    /\ procs' = [procs EXCEPT ![i] =
          [procs[i] EXCEPT !.count = @ + 1,
                           !.w.users = Upsert(@, procs[i].cur[procs[i].count + 1],
                                              procs[i].team)]]
    /\ UNCHANGED <<db, now, last>>

\* return tx.Commit()
CreateTeamCommit(i) ==
    /\ procs[i].op = "CreateTeam" /\ procs[i].pc = "upsert"
    /\ procs[i].count = Len(procs[i].cur)
    /\ teams' = teams \cup procs[i].w.teams
    /\ users' = Overlay(users, procs[i].w.users)
    /\ procs' = [procs EXCEPT ![i] = Finish(i, OK)]
    /\ UNCHANGED <<pull_requests, pr_reviewers, now, last>>

\* -- BulkDeactivateUsers
BulkBegin(i, teamName, userIDs) ==
    /\ Free(i)
    /\ procs' = [procs EXCEPT ![i] = [Idle EXCEPT !.op = "BulkDeactivateUsers", !.pc = "exists",
                                                  !.team = teamName, !.cur = userIDs]]
    /\ UNCHANGED <<db, now, last>>

\* SELECT EXISTS(SELECT 1 FROM teams WHERE team_name = $1)
BulkSelectTeam(i) ==
    /\ procs[i].op = "BulkDeactivateUsers" /\ procs[i].pc = "exists"
    /\ procs' = [procs EXCEPT ![i] =
          IF procs[i].team \notin teams THEN Finish(i, NOT_FOUND)
          ELSE [procs[i] EXCEPT !.pc = "select", !.count = 0]]
    /\ UNCHANGED <<db, now, last>>

\* SELECT team_name FROM users WHERE user_id = $1 for the next id, and the two
\* "continue" of the loop
BulkSelectUser(i) ==
    /\ procs[i].op = "BulkDeactivateUsers" /\ procs[i].pc = "select"
    /\ procs[i].count < Len(procs[i].cur)
    /\ procs' = [procs EXCEPT ![i] =
          IF procs[i].cur[procs[i].count + 1]
                \in BulkTargets(Overlay(users, procs[i].w.users), procs[i].team,
                                {procs[i].cur[procs[i].count + 1]})
          THEN [procs[i] EXCEPT !.pc = "update"]
          ELSE [procs[i] EXCEPT !.count = @ + 1]]
    /\ UNCHANGED <<db, now, last>>

\* UPDATE users SET is_active = false WHERE user_id = $1: it waits for the
\* transaction that wrote the row and then updates the row that one committed
BulkUpdate(i) ==
    /\ procs[i].op = "BulkDeactivateUsers" /\ procs[i].pc = "update"
    /\ WaitsFor(i) = {}
    /\ procs' = [procs EXCEPT ![i] =
          [procs[i] EXCEPT
              !.pc = "select", !.count = @ + 1,
              !.w.users = Overlay(@,
                  [u \in {procs[i].cur[procs[i].count + 1]} |->
                      [Overlay(users, procs[i].w.users)[u] EXCEPT !.is_active = FALSE]])]]
    /\ UNCHANGED <<db, now, last>>

\* return tx.Commit()
BulkCommit(i) ==
    /\ procs[i].op = "BulkDeactivateUsers" /\ procs[i].pc = "select"
    /\ procs[i].count = Len(procs[i].cur)
    /\ users' = Overlay(users, procs[i].w.users)
    /\ procs' = [procs EXCEPT ![i] = Finish(i, OK)]
    /\ UNCHANGED <<teams, pull_requests, pr_reviewers, now, last>>

\* -- CreatePullRequest
CreatePRBegin(i, prID, authorID) ==
    /\ Free(i)
    /\ procs' = [procs EXCEPT ![i] = [Idle EXCEPT !.op = "CreatePullRequest", !.pc = "exists",
                                                  !.pr = prID, !.author = authorID]]
    /\ UNCHANGED <<db, now, last>>

\* SELECT EXISTS(SELECT 1 FROM pull_requests WHERE pull_request_id = $1), then
\* SELECT team_name FROM users WHERE user_id = $1
CreatePRSelect(i) ==
    /\ procs[i].op = "CreatePullRequest" /\ procs[i].pc = "exists"
    /\ procs' = [procs EXCEPT ![i] =
          IF PRExists(pull_requests, procs[i].pr) THEN Finish(i, PR_EXISTS)
          ELSE [procs[i] EXCEPT !.pc = "author"]]
    /\ UNCHANGED <<db, now, last>>

CreatePRAuthor(i) ==
    /\ procs[i].op = "CreatePullRequest" /\ procs[i].pc = "author"
    /\ procs' = [procs EXCEPT ![i] =
          IF procs[i].author \notin DOMAIN users THEN Finish(i, NOT_FOUND)
          ELSE [procs[i] EXCEPT !.pc = "insert", !.team = users[procs[i].author].team_name]]
    /\ UNCHANGED <<db, now, last>>

\* INSERT INTO pull_requests ...: it waits for an open transaction that
\* inserted the id; an id committed meanwhile violates the primary key
CreatePRInsert(i) ==
    /\ procs[i].op = "CreatePullRequest" /\ procs[i].pc = "insert"
    /\ WaitsFor(i) = {}
    /\ procs' = [procs EXCEPT ![i] =
          IF procs[i].pr \in DOMAIN pull_requests THEN Finish(i, STORAGE)
          ELSE [procs[i] EXCEPT
                   !.pc = "candidates",
                   !.w.pull_requests = [p \in {procs[i].pr} |->
                       [author_id |-> procs[i].author, status |-> StatusOpen,
                        merged_at |-> NullTime]]]]
    /\ UNCHANGED <<db, now, last>>

\* the candidate query and selectRandomReviewers(candidates, 2)
CreatePRCandidates(i) ==
    /\ procs[i].op = "CreatePullRequest" /\ procs[i].pc = "candidates"
    /\ \E reviewers \in selectRandomReviewers(
                            CreateCandidates(users, procs[i].team, procs[i].author),
                            MaxReviewers) :
          procs' = [procs EXCEPT ![i] = [procs[i] EXCEPT !.pc = "reviewers", !.cur = reviewers]]
    /\ UNCHANGED <<db, now, last>>

\* the INSERT INTO pr_reviewers of every chosen reviewer
CreatePRReviewers(i) ==
    /\ procs[i].op = "CreatePullRequest" /\ procs[i].pc = "reviewers"
    /\ procs' = [procs EXCEPT ![i] =
          [procs[i] EXCEPT !.pc = "commit",
                           !.w.pr_reviewers = {<<procs[i].pr, r>> : r \in Range(procs[i].cur)}]]
    /\ UNCHANGED <<db, now, last>>

\* tx.Commit()
CreatePRCommit(i) ==
    /\ procs[i].op = "CreatePullRequest" /\ procs[i].pc = "commit"
    /\ pull_requests' = Overlay(pull_requests, procs[i].w.pull_requests)
    /\ pr_reviewers' = pr_reviewers \cup procs[i].w.pr_reviewers
    /\ procs' = [procs EXCEPT ![i] = [procs[i] EXCEPT !.pc = "get", !.w = Idle.w]]
    /\ UNCHANGED <<teams, users, now, last>>

\* return s.GetPullRequest(prID)
CreatePRReturn(i) ==
    /\ procs[i].op = "CreatePullRequest" /\ procs[i].pc = "get"
    /\ procs' = [procs EXCEPT ![i] =
          [Finish(i, OK) EXCEPT
              !.status = GetPullRequest(pull_requests, pr_reviewers, procs[i].pr).status]]
    /\ UNCHANGED <<db, now, last>>

\* --------------------------------------------------------------- SpecFail
\* one CreateTeam, BulkDeactivateUsers, CreatePullRequest or ReassignReviewer
\* call, statement by statement, in which any statement sent to the storage
\* can fail, on the tables earlier calls can leave

\* a statement of the open transaction (tx.QueryRow, tx.Query, tx.Exec or
\* tx.Commit) returns an error: "return err" and the deferred tx.Rollback()
StorageFails(i) ==
    /\ InTx(i)
    /\ procs[i].op \in {"CreateTeam", "BulkDeactivateUsers", "CreatePullRequest",
                        "ReassignReviewer"}
    /\ ~(procs[i].op = "CreatePullRequest" /\ procs[i].pc = "get")
    /\ procs' = [procs EXCEPT ![i] = Finish(i, STORAGE)]
    /\ UNCHANGED <<db, now, last>>

\* CreatePullRequest: tx.Commit() succeeded and a query of the
\* s.GetPullRequest(prID) that follows it returns an error
CreatePRGetFails(i) ==
    /\ procs[i].op = "CreatePullRequest" /\ procs[i].pc = "get"
    /\ procs' = [procs EXCEPT ![i] = Finish(i, STORAGE)]
    /\ UNCHANGED <<db, now, last>>

\* ReassignReviewer: tx.Commit() succeeded and a query of the
\* s.GetPullRequest(prID) that follows it returns an error
ReassignGetFails(i) ==
    /\ procs[i].op = "ReassignReviewer" /\ procs[i].pc = "commit"
    /\ pr_reviewers' = IF procs[i].wrote
                       THEN ReplaceReviewer(pr_reviewers, procs[i].pr, procs[i].old, procs[i].new)
                       ELSE pr_reviewers
    /\ procs' = [procs EXCEPT ![i] = Finish(i, STORAGE)]
    /\ UNCHANGED <<teams, users, pull_requests, now, last>>

\* no connection has run a call yet
NoCallYet == \A j \in Procs : procs[j] = Idle

\* the id lists of a BulkDeactivateUsers request: no id twice, in any order
IDLists == UNION {Orders(S) : S \in SUBSET UserIDs}

NextFail ==
    \/ \E i \in Procs, teamName \in TeamNames, members \in MemberLists :
          NoCallYet /\ CreateTeamBegin(i, teamName, members)
    \/ \E i \in Procs : CreateTeamSelect(i)
    \/ \E i \in Procs : CreateTeamInsert(i)
    \/ \E i \in Procs : CreateTeamUpsert(i)
    \/ \E i \in Procs : CreateTeamCommit(i)
    \/ \E i \in Procs, teamName \in TeamNames, userIDs \in IDLists :
          NoCallYet /\ BulkBegin(i, teamName, userIDs)
    \/ \E i \in Procs : BulkSelectTeam(i)
    \/ \E i \in Procs : BulkSelectUser(i)
    \/ \E i \in Procs : BulkUpdate(i)
    \/ \E i \in Procs : BulkCommit(i)
    \/ \E i \in Procs, prID \in PRIDs, authorID \in UserIDs :
          NoCallYet /\ CreatePRBegin(i, prID, authorID)
    \/ \E i \in Procs : CreatePRSelect(i)
    \/ \E i \in Procs : CreatePRAuthor(i)
    \/ \E i \in Procs : CreatePRInsert(i)
    \/ \E i \in Procs : CreatePRCandidates(i)
    \/ \E i \in Procs : CreatePRReviewers(i)
    \/ \E i \in Procs : CreatePRCommit(i)
    \/ \E i \in Procs : CreatePRReturn(i)
    \/ \E i \in Procs, prID \in PRIDs, oldUserID \in UserIDs :
          NoCallYet /\ ReassignBegin(i, prID, oldUserID)
    \/ \E i \in Procs : ReassignSelectPR(i)
    \/ \E i \in Procs : ReassignSelectAssigned(i)
    \/ \E i \in Procs : ReassignSelectTeam(i)
    \/ \E i \in Procs : ReassignSelectCurrent(i)
    \/ \E i \in Procs : ReassignSelectCandidates(i)
    \/ \E i \in Procs : ReassignExec(i)
    \/ \E i \in Procs : ReassignCommit(i)
    \/ \E i \in Procs : StorageFails(i)
    \/ \E i \in Procs : CreatePRGetFails(i)
    \/ \E i \in Procs : ReassignGetFails(i)

\* last keeps the tables as they are before the call
InitFail == InitTables /\ last = [op |-> "none", before |-> db]

SpecFail == InitFail /\ [][NextFail]_vars

\* ================================================================= claims
\* the pool the claims speak of: the active users of a team
ActiveOf(teamName) == {u \in DOMAIN users : users[u].team_name = teamName /\ users[u].is_active}

\* C1: in every state reached by successful calls, no pull request has its
\* own author among its assigned reviewers.
C1_NoAuthorAmongReviewers ==
    \A p \in DOMAIN pull_requests : <<p, pull_requests[p].author_id>> \notin pr_reviewers

C4_ReassignOnMergedFails ==
    [][last'.op = "ReassignReviewer" /\ last'.pr \in DOMAIN pull_requests
          /\ pull_requests[last'.pr].status = StatusMerged
       => last'.err = PR_MERGED /\ pr_reviewers' = pr_reviewers]_vars

\* C4 witness: the call failed with PR_MERGED for an old reviewer that is no
\* user at all, on a merged pull request that has reviewers
C4_Witness ==
    /\ last.op = "ReassignReviewer" /\ last.err = PR_MERGED
    /\ last.user \notin DOMAIN users
    /\ ReviewersOf(pr_reviewers, last.pr) # {}

\* C5: a successful ReassignReviewer(pr, old) returns a reviewer other than
\* old that was not assigned to pr, pr's reviewers are the ones before with old
\* replaced by it, and the reviewers of every other pull request are unchanged.
C5_ReassignReplacesOld ==
    [][last'.op = "ReassignReviewer" /\ last'.err = OK
       => /\ last'.new # last'.user
          /\ last'.new \in DOMAIN users
          /\ <<last'.pr, last'.new>> \notin pr_reviewers
          /\ <<last'.pr, last'.user>> \in pr_reviewers
          /\ pr_reviewers' = (pr_reviewers \ {<<last'.pr, last'.user>>})
                                \cup {<<last'.pr, last'.new>>}]_vars

\* C5 witness: a successful reassignment while the old reviewer is also
\* assigned to another pull request
C5_Witness ==
    /\ last.op = "ReassignReviewer" /\ last.err = OK
    /\ <<last.pr, last.new>> \in pr_reviewers
    /\ \E p \in DOMAIN pull_requests : p # last.pr /\ <<p, last.user>> \in pr_reviewers

\* C6: ReassignReviewer(pr, old) on an OPEN pull request old is assigned to
\* succeeds when the pool (active users of old's team, other than old and the
\* current reviewers) is not empty, for one or two current reviewers read in
\* any order; it fails with NO_CANDIDATE only when the pool is empty and never
\* with an error of the storage.
C6_ReassignSucceedsWithPool ==
    [][last'.op = "ReassignReviewer" /\ last'.pr \in DOMAIN pull_requests
          /\ pull_requests[last'.pr].status = StatusOpen
          /\ <<last'.pr, last'.user>> \in pr_reviewers
          /\ last'.user \in DOMAIN users
       => LET pool == ActiveOf(users[last'.user].team_name)
                         \ ({last'.user} \cup ReviewersOf(pr_reviewers, last'.pr))
          IN  /\ pool # {} => last'.err = OK
              /\ last'.err = NO_CANDIDATE => pool = {}
              /\ last'.err # STORAGE]_vars

\* C8: MergePullRequest of an existing pull request succeeds and returns
\* status MERGED with the stored merge timestamp; on a pull request that is
\* already merged it returns the same timestamp and changes nothing.
C8_MergeIdempotent ==
    [][last'.op = "MergePullRequest" /\ last'.pr \in DOMAIN pull_requests
       => /\ last'.err = OK
          /\ last'.status = StatusMerged
          /\ last'.merged_at # NullTime
          /\ last'.merged_at = pull_requests'[last'.pr].merged_at
          /\ pull_requests[last'.pr].status = StatusMerged
                => /\ last'.merged_at = pull_requests[last'.pr].merged_at
                   /\ db' = db]_vars

\* C8 witness: a merge returned a timestamp older than the clock, so it was a
\* call on a pull request merged before
C8_Witness ==
    /\ last.op = "MergePullRequest" /\ last.err = OK
    /\ last.status = StatusMerged
    /\ last.merged_at # NullTime /\ last.merged_at < now

\* C10: a pull request starts OPEN, its status only ever goes from OPEN to
\* MERGED, and a MERGED pull request stays MERGED.
C10_StatusOneWay ==
    [][\A p \in DOMAIN pull_requests' :
          /\ pull_requests'[p].status \in {StatusOpen, StatusMerged}
          /\ p \notin DOMAIN pull_requests => pull_requests'[p].status = StatusOpen
          /\ (p \in DOMAIN pull_requests /\ pull_requests[p].status = StatusMerged)
                => pull_requests'[p].status = StatusMerged]_vars

\* C10 witness: a create was tried on the id of a merged pull request
C10_Witness ==
    /\ last.op = "CreatePullRequest" /\ last.err = PR_EXISTS
    /\ pull_requests[last.pr].status = StatusMerged

\* C3: once a pull request is MERGED its reviewers never change, whatever
\* the interleaving of MergePullRequest with a concurrent ReassignReviewer.
C3_MergedReviewersFrozen ==
    [][\A p \in DOMAIN pull_requests :
          pull_requests[p].status = StatusMerged
             => ReviewersOf(pr_reviewers', p) = ReviewersOf(pr_reviewers, p)]_vars

\* C7: when ReassignReviewer(pr, old) returns success with the new reviewer n,
\* the reviewers of pr committed by that call hold n and not old (never both,
\* never neither), also with another ReassignReviewer running on the same pr.
C7_CommitHoldsNewReviewer ==
    [][\A i \in Procs :
          (/\ procs[i].op = "ReassignReviewer" /\ procs[i].pc = "commit"
           /\ procs'[i].pc = "done" /\ procs'[i].err = OK)
             => /\ <<procs'[i].pr, procs'[i].new>> \in pr_reviewers'
                /\ <<procs'[i].pr, procs'[i].old>> \notin pr_reviewers']_vars

\* C9: the merge timestamp of a pull request is written once, on the first
\* transition to MERGED, and never overwritten, also when two
\* MergePullRequest calls on the same OPEN pull request run concurrently.
C9_MergedAtWrittenOnce ==
    [][\A p \in DOMAIN pull_requests :
          pull_requests[p].merged_at # NullTime
             => pull_requests'[p].merged_at = pull_requests[p].merged_at]_vars

\* C11: in every state, also while ReassignReviewer calls on the same pull
\* request interleave under READ COMMITTED, a pull request has at most 2
\* reviewers, and no committed update writes a (pull request, reviewer) pair
\* that is already in the assignment relation (no pair is held twice).
C11_NoDuplicateAtMostTwo ==
    /\ [](\A p \in DOMAIN pull_requests : Cardinality(ReviewersOf(pr_reviewers, p)) <= MaxReviewers)
    /\ [][\A i \in Procs :
            (/\ procs[i].op = "ReassignReviewer" /\ procs[i].pc = "commit"
             /\ procs[i].wrote /\ procs'[i].pc = "done")
               => /\ <<procs[i].pr, procs[i].new>> \notin pr_reviewers
                  /\ Cardinality(pr_reviewers') = Cardinality(pr_reviewers)]_vars

\* C11 witness: of two reassignments of the two reviewers of one pull request
\* that chose the same new reviewer, one committed and the update of the other
\* was refused by the primary key
C11_Witness ==
    \E i \in Procs :
        /\ procs[i].op = "ReassignReviewer" /\ procs[i].pc = "done"
        /\ procs[i].err = STORAGE /\ procs[i].new # NoUser
        /\ <<procs[i].pr, procs[i].new>> \in pr_reviewers
        /\ <<procs[i].pr, procs[i].old>> \in pr_reviewers

\* C12: ReassignReviewer(pr, old) fails with NOT_FOUND when pr does not exist,
\* with NOT_ASSIGNED when pr is OPEN and old is not assigned to it, and with
\* NO_CANDIDATE when the pool (active users of old's team other than old and
\* the current reviewers) is empty; each of these failures leaves the teams,
\* users, pull requests and assignments as they were.
C12_ReassignFailures ==
    [][last'.op = "ReassignReviewer"
       => /\ last'.pr \notin DOMAIN pull_requests => last'.err = NOT_FOUND
          /\ (/\ last'.pr \in DOMAIN pull_requests
              /\ pull_requests[last'.pr].status = StatusOpen
              /\ <<last'.pr, last'.user>> \notin pr_reviewers) => last'.err = NOT_ASSIGNED
          /\ (/\ last'.pr \in DOMAIN pull_requests
              /\ pull_requests[last'.pr].status = StatusOpen
              /\ <<last'.pr, last'.user>> \in pr_reviewers
              /\ last'.user \in DOMAIN users
              /\ ActiveOf(users[last'.user].team_name)
                    \ ({last'.user} \cup ReviewersOf(pr_reviewers, last'.pr)) = {})
                => last'.err = NO_CANDIDATE
          /\ last'.err \in {NOT_FOUND, NOT_ASSIGNED, NO_CANDIDATE} => db' = db]_vars

\* C13: CreateTeam(name, members) with a name that is already registered
\* fails with TEAM_EXISTS and changes nothing: no member is inserted, moved to
\* another team or has its active flag changed.
C13_CreateTeamExists ==
    [][last'.op = "CreateTeam" /\ last'.team \in teams
       => last'.err = TEAM_EXISTS /\ db' = db]_vars

\* C13 witness: a create failed with TEAM_EXISTS while a user of another team
\* and an inactive user of the team exist (rows an upsert would have changed)
C13_Witness ==
    /\ last.op = "CreateTeam" /\ last.err = TEAM_EXISTS
    /\ \E u \in DOMAIN users : users[u].team_name # last.team
    /\ \E u \in DOMAIN users : users[u].team_name = last.team /\ ~users[u].is_active

\* the users a member list names
Listed(members) == {members[k].user_id : k \in 1..Len(members)}

\* the listings of a member list that no later listing of the same user follows
LastListings(members) ==
    {k \in 1..Len(members) :
        \A j \in (k + 1)..Len(members) : members[j].user_id # members[k].user_id}

\* C14 (as stated): after a successful CreateTeam(name, members) every listed
\* member belongs to team name with the active flag of its listing, also a
\* member that belonged to another team; users not listed are unchanged; in
\* every state each user belongs to one existing team.
C14_CreateTeamUpserts ==
    /\ [](\A u \in DOMAIN users : users[u].team_name \in teams)
    /\ [][\A i \in Procs :
            (procs[i] = Idle /\ procs'[i].op = "CreateTeam" /\ procs'[i].err = OK)
               => /\ procs'[i].team \in teams'
                  /\ DOMAIN users' = DOMAIN users \cup Listed(procs'[i].cur)
                  /\ \A k \in 1..Len(procs'[i].cur) :
                        users'[procs'[i].cur[k].user_id] =
                           [team_name |-> procs'[i].team,
                            is_active |-> procs'[i].cur[k].is_active]
                  /\ \A u \in DOMAIN users \ Listed(procs'[i].cur) : users'[u] = users[u]]_vars

\* C14 (amended): the same, with the active flag of the last listing of a
\* member that the list names more than once.
C14_CreateTeamLastListing ==
    /\ [](\A u \in DOMAIN users : users[u].team_name \in teams)
    /\ [][\A i \in Procs :
            (procs[i] = Idle /\ procs'[i].op = "CreateTeam" /\ procs'[i].err = OK)
               => /\ procs'[i].team \in teams'
                  /\ DOMAIN users' = DOMAIN users \cup Listed(procs'[i].cur)
                  /\ \A k \in LastListings(procs'[i].cur) :
                        users'[procs'[i].cur[k].user_id] =
                           [team_name |-> procs'[i].team,
                            is_active |-> procs'[i].cur[k].is_active]
                  /\ \A u \in DOMAIN users \ Listed(procs'[i].cur) : users'[u] = users[u]]_vars

\* C14 witness: a successful create whose list names one user twice with
\* different flags, while the other team exists and keeps a member
C14_Witness ==
    \E i \in Procs :
        /\ procs[i].op = "CreateTeam" /\ procs[i].err = OK
        /\ \E k, j \in 1..Len(procs[i].cur) :
              /\ k < j
              /\ procs[i].cur[k].user_id = procs[i].cur[j].user_id
              /\ procs[i].cur[k].is_active # procs[i].cur[j].is_active
        /\ \E u \in DOMAIN users : users[u].team_name # procs[i].team
        /\ \E u \in Listed(procs[i].cur) : users[u].team_name = procs[i].team

\* C15: CreatePullRequest(id, name, author) fails with PR_EXISTS when the id
\* is taken (also when the author is unknown) and with NOT_FOUND when the id is
\* free and the author is no user; in both failures no pull request and no
\* assignment is created and the existing pull request keeps its author,
\* status and reviewers.
C15_CreateFailures ==
    [][last'.op = "CreatePullRequest"
       => /\ last'.pr \in DOMAIN pull_requests => last'.err = PR_EXISTS
          /\ (last'.pr \notin DOMAIN pull_requests /\ last'.user \notin DOMAIN users)
                => last'.err = NOT_FOUND
          /\ last'.err \in {PR_EXISTS, NOT_FOUND}
                => /\ pull_requests' = pull_requests
                   /\ pr_reviewers' = pr_reviewers
                   /\ db' = db]_vars

\* C15 witness: a create with an unknown author on the id of a pull request
\* that has reviewers failed with PR_EXISTS
C15_Witness ==
    /\ last.op = "CreatePullRequest" /\ last.err = PR_EXISTS
    /\ last.user \notin DOMAIN users
    /\ ReviewersOf(pr_reviewers, last.pr) # {}

\* C16: BulkDeactivateUsers(team, ids) fails with NOT_FOUND and changes nothing
\* when team is unknown; otherwise it succeeds and sets inactive exactly the
\* users of ids that exist and belong to team, leaves the flag and team of
\* every other user (ids that are unknown or of another team are skipped
\* without error), and changes no pull request and no assignment.
C16_BulkDeactivateExact ==
    [][\A i \in Procs :
          (procs[i] = Idle /\ procs'[i].op = "BulkDeactivateUsers")
             => /\ procs'[i].team \notin teams
                      => procs'[i].err = NOT_FOUND /\ db' = db
                /\ procs'[i].team \in teams
                      => /\ procs'[i].err = OK
                         /\ DOMAIN users' = DOMAIN users
                         /\ \A u \in DOMAIN users :
                               IF u \in Range(procs'[i].cur)
                                     /\ users[u].team_name = procs'[i].team
                               THEN users'[u] = [team_name |-> users[u].team_name,
                                                 is_active |-> FALSE]
                               ELSE users'[u] = users[u]
                         /\ teams' = teams
                         /\ pull_requests' = pull_requests
                         /\ pr_reviewers' = pr_reviewers]_vars

\* C16 witness: a call that deactivated a reviewer of an open pull request,
\* with a user of another team, still active, in its list
C16_Witness ==
    \E i \in Procs :
        /\ procs[i].op = "BulkDeactivateUsers" /\ procs[i].err = OK
        /\ \E u \in Range(procs[i].cur) \cap DOMAIN users :
              users[u].team_name # procs[i].team /\ users[u].is_active
        /\ \E u \in Range(procs[i].cur) \cap DOMAIN users, p \in DOMAIN pull_requests :
              /\ users[u].team_name = procs[i].team
              /\ <<p, u>> \in pr_reviewers

\* C17: SafeReassignOpenPRs(ids) never makes the reviewers of a pull request
\* fewer, and every pair it counts is a pair whose reviewer its own update
\* replaced in the committed assignment relation (the count it returns is the
\* number of pairs this call replaced).
C17_CountIsReplacedPairs ==
    [][/\ \A p \in DOMAIN pull_requests :
             Cardinality(ReviewersOf(pr_reviewers', p)) >= Cardinality(ReviewersOf(pr_reviewers, p))
       /\ \A i \in Procs :
             (/\ procs[i].op = "ReassignReviewer" /\ procs[i].safe
              /\ procs'[i].op = "SafeReassignOpenPRs"
              /\ procs'[i].count = procs[i].count + 1)
                => /\ procs[i].wrote
                   /\ <<procs[i].pr, procs[i].new>> \in pr_reviewers]_vars

\* C18: BulkDeactivateUsers(T, [r]) and then, with nothing in between,
\* SafeReassignOpenPRs([r]), on an open pull request whose author a and
\* reviewer r are members of T and where exactly one further member c of T is
\* active and not assigned to it, replaces r by c (never by a) and returns 1.
C18_BulkThenSafeReplaces ==
    [][\A r \in DOMAIN users, p \in DOMAIN pull_requests :
          LET further == {c \in ActiveOf(users[r].team_name) :
                             /\ c \notin ReviewersOf(pr_reviewers, p)
                             /\ c # pull_requests[p].author_id
                             /\ c # r}
          IN  (/\ last.op = "BulkDeactivateUsers" /\ last.err = OK
               /\ last.team = users[r].team_name
               /\ ~users[r].is_active
               /\ pull_requests[p].status = StatusOpen
               /\ <<p, r>> \in pr_reviewers
               /\ users[pull_requests[p].author_id].team_name = users[r].team_name
               /\ Cardinality(further) = 1
               /\ SafeReassignOpenPRs({r}))
                 => /\ last'.count = 1
                    /\ pr_reviewers' = (pr_reviewers \ {<<p, r>>})
                                          \cup {<<p, c>> : c \in further}]_vars

C21_ReviewersInAuthorsTeam ==
    \A p \in DOMAIN pull_requests :
        pull_requests[p].status = StatusOpen
           => \A r \in ReviewersOf(pr_reviewers, p) :
                 users[r].team_name = users[pull_requests[p].author_id].team_name

\* C21 (amended): the reviewers a successful CreatePullRequest assigns are
\* members of the author's team at that moment, and the replacement of a
\* successful ReassignReviewer is a member of the team the old reviewer belongs
\* to at that moment; a CreateTeam that moves a user leaves all assignments as
\* they are.
C21_DrawnFromTeamAtAssignment ==
    [][/\ (last'.op = "CreatePullRequest" /\ last'.err = OK)
             => \A r \in ReviewersOf(pr_reviewers', last'.pr) :
                   users[r].team_name = users[last'.user].team_name
       /\ (last'.op = "ReassignReviewer" /\ last'.err = OK)
             => users[last'.new].team_name = users[last'.user].team_name
       /\ last'.op = "CreateTeam" => pr_reviewers' = pr_reviewers]_vars

\* C21 witness: a successful ReassignReviewer drew the replacement from the
\* team the old reviewer was moved to, which is not the team of the author
C21_Witness ==
    /\ last.op = "ReassignReviewer" /\ last.err = OK
    /\ pull_requests[last.pr].status = StatusOpen
    /\ <<last.pr, last.new>> \in pr_reviewers
    /\ users[last.new].team_name = users[last.user].team_name
    /\ users[last.new].team_name # users[pull_requests[last.pr].author_id].team_name

\* C22: a call of CreateTeam, CreatePullRequest, ReassignReviewer or
\* BulkDeactivateUsers in which a storage step fails, at any point, returns an
\* error with the committed tables as they were before the call; and the
\* committed tables change only by the commit of a whole transaction (no
\* partial result is observable).
C22_FailureRollsBack ==
    /\ [](\A i \in Procs :
             (procs[i].pc = "done" /\ procs[i].err = STORAGE) => db = last.before)
    /\ [][db' # db
            => \E i \in Procs : \/ CreateTeamCommit(i) \/ BulkCommit(i)
                                \/ CreatePRCommit(i) \/ ReassignCommit(i)
                                \/ ReassignGetFails(i)]_vars

\* C23: MergePullRequest(id) changes only the status and the merge timestamp
\* of pull request id: the reviewers of all pull requests, every other pull
\* request, all teams and all users stay as they are; with an unknown id
\* (NOT_FOUND) nothing changes at all.
C23_MergeFrame ==
    [][last'.op = "MergePullRequest"
       => /\ teams' = teams /\ users' = users /\ pr_reviewers' = pr_reviewers
          /\ DOMAIN pull_requests' = DOMAIN pull_requests
          /\ \A p \in DOMAIN pull_requests :
                /\ pull_requests'[p].author_id = pull_requests[p].author_id
                /\ p # last'.pr => pull_requests'[p] = pull_requests[p]
          /\ last'.err = NOT_FOUND => db' = db]_vars

\* C23 witness: a merge has just written its timestamp while another pull
\* request is open, and both have reviewers
C23_Witness ==
    /\ last.op = "MergePullRequest" /\ last.err = OK
    /\ pull_requests[last.pr].merged_at = now
    /\ \E p \in DOMAIN pull_requests :
          /\ p # last.pr /\ pull_requests[p].status = StatusOpen
          /\ ReviewersOf(pr_reviewers, p) # {}
          /\ ReviewersOf(pr_reviewers, last.pr) # {}

\* ------------------------------------------------------------- SpecCreate
\* one CreatePullRequest call on every connection, one SQL statement per
\* step, the calls running concurrently
NextCreate ==
    \/ \E i \in Procs, prID \in PRIDs, authorID \in UserIDs :
          procs[i] = Idle /\ CreatePRBegin(i, prID, authorID)
    \/ \E i \in Procs : CreatePRSelect(i)
    \/ \E i \in Procs : CreatePRAuthor(i)
    \/ \E i \in Procs : CreatePRInsert(i)
    \/ \E i \in Procs : CreatePRCandidates(i)
    \/ \E i \in Procs : CreatePRReviewers(i)
    \/ \E i \in Procs : CreatePRCommit(i)
    \/ \E i \in Procs : CreatePRReturn(i)

SpecCreate == InitTeam /\ [][NextCreate]_vars

\* C24: of two CreatePullRequest calls with the same id (both with an author
\* that is a user) running concurrently, exactly one creates the pull request
\* and the other fails with PR_EXISTS, not with an untyped storage error; the
\* stored pull request has the author and the reviewers of the successful call.
C24_ConcurrentCreateTyped ==
    \A i, j \in Procs :
       (/\ i # j
        /\ procs[i].op = "CreatePullRequest" /\ procs[i].pc = "done"
        /\ procs[j].op = "CreatePullRequest" /\ procs[j].pc = "done"
        /\ procs[i].pr = procs[j].pr
        /\ procs[i].author \in DOMAIN users /\ procs[j].author \in DOMAIN users
        /\ procs[i].err = OK)
          => /\ procs[j].err = PR_EXISTS
             /\ pull_requests[procs[i].pr].author_id = procs[i].author
             /\ ReviewersOf(pr_reviewers, procs[i].pr) = Range(procs[i].cur)

\* --------------------------------------------------------------- SpecLive
\* one call of CreateTeam, BulkDeactivateUsers, CreatePullRequest,
\* ReassignReviewer or MergePullRequest on every connection, one SQL statement
\* per step, the calls running concurrently; every connection whose next
\* statement can run does run it (each call has its own goroutine and its own
\* session of the storage)
LiveMembers == {members \in MemberLists : Len(members) = 2}

LiveIDLists == {userIDs \in IDLists : Len(userIDs) = 2}

\* the tables after CreateTeam(FrameTeam, two active members) and at most one
\* CreatePullRequest
InitLive ==
    /\ \E U \in {UpsertMembers(<<>>, <<[user_id |-> 1, is_active |-> TRUE],
                                     [user_id |-> 2, is_active |-> TRUE]>>, FrameTeam)} :
       \E created \in CreatedPRs(U) :
          /\ teams = {FrameTeam}
          /\ users = U
          /\ pull_requests = created.P
          /\ pr_reviewers = created.R
    /\ now = 0
    /\ last = NoCall
    /\ procs = [i \in Procs |-> Idle]

\* the next statement of the call of connection i
Step(i) ==
    \/ CreateTeamSelect(i) \/ CreateTeamInsert(i) \/ CreateTeamUpsert(i) \/ CreateTeamCommit(i)
    \/ BulkSelectTeam(i) \/ BulkSelectUser(i) \/ BulkUpdate(i) \/ BulkCommit(i)
    \/ CreatePRSelect(i) \/ CreatePRAuthor(i) \/ CreatePRInsert(i) \/ CreatePRCandidates(i)
    \/ CreatePRReviewers(i) \/ CreatePRCommit(i) \/ CreatePRReturn(i)
    \/ ReassignSelectPR(i) \/ ReassignSelectAssigned(i) \/ ReassignSelectTeam(i)
    \/ ReassignSelectCurrent(i) \/ ReassignSelectCandidates(i) \/ ReassignExec(i)
    \/ ReassignCommit(i)
    \/ MergeSelect(i) \/ MergeExec(i) \/ MergeReturn(i)
    \/ DeadlockDetected(i)

NextLive ==
    \/ \E i \in Procs, teamName \in TeamNames, members \in LiveMembers :
          procs[i] = Idle /\ CreateTeamBegin(i, teamName, members)
    \/ \E i \in Procs, teamName \in TeamNames, userIDs \in LiveIDLists :
          procs[i] = Idle /\ BulkBegin(i, teamName, userIDs)
    \/ \E i \in Procs, prID \in PRIDs, authorID \in UserIDs :
          procs[i] = Idle /\ CreatePRBegin(i, prID, authorID)
    \/ \E i \in Procs, prID \in PRIDs, oldUserID \in UserIDs :
          procs[i] = Idle /\ ReassignBegin(i, prID, oldUserID)
    \/ \E i \in Procs, prID \in PRIDs : procs[i] = Idle /\ MergeBegin(i, prID)
    \/ \E i \in Procs : Step(i)

SpecLive == InitLive /\ [][NextLive]_vars /\ \A i \in Procs : WF_vars(Step(i))

Reassigning == \E j \in Procs : procs[j].op = "ReassignReviewer" /\ procs[j].pc = "update"

NextRace ==
    \/ \E i \in Procs, prID \in PRIDs, oldUserID \in UserIDs :
          NoCallYet /\ ReassignBegin(i, prID, oldUserID)
    \/ \E i \in Procs : ReassignSelectPR(i)
    \/ \E i \in Procs : ReassignSelectAssigned(i)
    \/ \E i \in Procs : ReassignSelectTeam(i)
    \/ \E i \in Procs : ReassignSelectCurrent(i)
    \/ \E i \in Procs : ReassignSelectCandidates(i)
    \/ \E i \in Procs : ReassignExec(i)
    \/ \E i \in Procs : ReassignCommit(i)
    \/ \E userID \in UserIDs, isActive \in BOOLEAN :
          Reassigning /\ SetUserActive(userID, isActive)
    \/ \E i \in Procs, teamName \in TeamNames, userIDs \in LiveIDLists :
          Reassigning /\ procs[i] = Idle /\ BulkBegin(i, teamName, userIDs)
    \/ \E i \in Procs : BulkSelectTeam(i)
    \/ \E i \in Procs : BulkSelectUser(i)
    \/ \E i \in Procs : BulkUpdate(i)
    \/ \E i \in Procs : BulkCommit(i)
    \/ \E i \in Procs, teamName \in TeamNames, members \in LiveMembers :
          Reassigning /\ procs[i] = Idle /\ CreateTeamBegin(i, teamName, members)
    \/ \E i \in Procs : CreateTeamSelect(i)
    \/ \E i \in Procs : CreateTeamInsert(i)
    \/ \E i \in Procs : CreateTeamUpsert(i)
    \/ \E i \in Procs : CreateTeamCommit(i)

SpecRace == InitConc /\ [][NextRace]_vars

\* C26: the reviewer written by a successful ReassignReviewer(pr, old) is, in
\* the tables as the replacement commits, an active user of the team of old,
\* also when SetUserActive, BulkDeactivateUsers or CreateTeam committed between
\* the candidate query and the replacement.
C26_ReplacementActiveAtCommit ==
    [][\A i \in Procs :
          (/\ procs[i].op = "ReassignReviewer" /\ procs[i].pc = "commit" /\ procs[i].wrote
           /\ procs'[i].pc = "done" /\ procs'[i].err = OK)
             => /\ users'[procs[i].new].is_active
                /\ users'[procs[i].new].team_name = users'[procs[i].old].team_name]_vars

\* ------------------------------------------------------------- SpecSelect
\* the two random selections on their own: every connection holds the
\* candidates a candidate query returned (ORDER BY user_id), and either
\* CreatePullRequest selects its reviewers or ReassignReviewer picks its
\* replacement among them
Pools == {SortedSeq(S) : S \in SUBSET (1..NumCandidates)}

InitSelect ==
    /\ teams = {} /\ users = <<>> /\ pull_requests = <<>> /\ pr_reviewers = {}
    /\ now = 0
    /\ last = NoCall
    /\ procs \in [Procs -> {[Idle EXCEPT !.op = "select", !.pc = "candidates",
                                         !.cur = candidates] : candidates \in Pools}]

\* reviewers := s.selectRandomReviewers(candidates, 2)
SelectReviewers(i) ==
    /\ procs[i].pc = "candidates"
    /\ \E reviewers \in selectRandomReviewers(procs[i].cur, MaxReviewers) :
          procs' = [procs EXCEPT ![i] = [procs[i] EXCEPT !.pc = "selected",
                                                         !.queue = reviewers]]
    /\ UNCHANGED <<db, now, last>>

\* newReviewerID := candidates[rand.Intn(len(candidates))], after the
\* NO_CANDIDATE return for no candidates
PickReplacement(i) ==
    /\ procs[i].pc = "candidates"
    /\ Len(procs[i].cur) # 0
    /\ \E n \in 0..(Len(procs[i].cur) - 1) :
          procs' = [procs EXCEPT ![i] = [procs[i] EXCEPT !.pc = "picked",
                                                         !.new = procs[i].cur[n + 1]]]
    /\ UNCHANGED <<db, now, last>>

NextSelect ==
    \/ \E i \in Procs : SelectReviewers(i)
    \/ \E i \in Procs : PickReplacement(i)

SpecSelect == InitSelect /\ [][NextSelect]_vars

\* C27: for the candidates P of a CreatePullRequest every subset of P of
\* size min(2, |P|) is a possible selection, and for the candidates P of a
\* ReassignReviewer every member of P is a possible replacement, whatever the
\* place of the candidate in the id order in which the candidates are read.
C27_EverySelectionPossible ==
    \A i \in Procs :
       procs[i].pc = "candidates"
          => /\ \A S \in SUBSET Range(procs[i].cur) :
                   Cardinality(S) = Min(MaxReviewers, Len(procs[i].cur))
                      => ENABLED (SelectReviewers(i) /\ Range(procs'[i].queue) = S)
             /\ \A n \in Range(procs[i].cur) :
                   ENABLED (PickReplacement(i) /\ procs'[i].new = n)

\* C27 witness: out of more than two candidates the selection took none of the
\* first two in id order, and a replacement was picked that is last in id order
C27_Witness ==
    \E i, j \in Procs :
       /\ procs[i].pc = "selected" /\ Len(procs[i].cur) > MaxReviewers
       /\ Len(procs[i].queue) = MaxReviewers
       /\ Range(procs[i].queue) \cap {procs[i].cur[1], procs[i].cur[2]} = {}
       /\ procs[j].pc = "picked" /\ Len(procs[j].cur) > 1
       /\ procs[j].new = procs[j].cur[Len(procs[j].cur)]

\* C28: in every reachable state, also with MergePullRequest calls running
\* concurrently, a pull request has a merge timestamp if and only if its
\* status is MERGED.
C28_MergedAtIffMerged ==
    \A p \in DOMAIN pull_requests :
       pull_requests[p].merged_at # NullTime <=> pull_requests[p].status = StatusMerged

\* C28 witness: two MergePullRequest calls on the same pull request both ran
\* their UPDATE and both returned
C28_Witness ==
    \E i, j \in Procs :
       /\ i # j /\ procs[i].pr = procs[j].pr
       /\ procs[i].op = "MergePullRequest" /\ procs[i].pc = "done" /\ procs[i].err = OK
       /\ procs[j].op = "MergePullRequest" /\ procs[j].pc = "done" /\ procs[j].err = OK
       /\ now = 2 /\ pull_requests[procs[i].pr].merged_at = now

\* C29: in every reachable state every reviewer of an assignment and every
\* author of a pull request is a user and the team of every user is a team,
\* and no team, user or pull request is ever deleted; so ReassignReviewer
\* returns NOT_FOUND only for an unknown pull request, never for the old
\* reviewer: the NOT_ASSIGNED check comes first and an assigned reviewer is a user.
C29_ReferencesResolve ==
    /\ [](/\ \A a \in pr_reviewers : a[1] \in DOMAIN pull_requests /\ a[2] \in DOMAIN users
          /\ \A p \in DOMAIN pull_requests : pull_requests[p].author_id \in DOMAIN users
          /\ \A u \in DOMAIN users : users[u].team_name \in teams)
    /\ [][/\ teams \subseteq teams'
          /\ DOMAIN users \subseteq DOMAIN users'
          /\ DOMAIN pull_requests \subseteq DOMAIN pull_requests'
          /\ (last'.op = "ReassignReviewer" /\ last'.err = NOT_FOUND)
                => last'.pr \notin DOMAIN pull_requests]_vars

\* C29 witness: ReassignReviewer was called on an open pull request with an
\* old reviewer that is no user, and returned NOT_ASSIGNED
C29_Witness ==
    /\ last.op = "ReassignReviewer" /\ last.err = NOT_ASSIGNED
    /\ last.user \notin DOMAIN users
    /\ last.pr \in DOMAIN pull_requests
    /\ pull_requests[last.pr].status = StatusOpen
    /\ ReviewersOf(pr_reviewers, last.pr) # {}

====
